---- MODULE Spec2Model ----
(***************************************************************************)
(* VE.Direct UART to MQTT bridge (vedirect_to_mqtt.py).                    *)
(*                                                                         *)
(* The model follows the main thread of the script: mqtt_connect(),        *)
(* open_serial(), the read/parse/checksum/publish loop of main(), its two  *)
(* exception handlers and the signal handler graceful_exit().  Bytes are   *)
(* integers 0..255, decoded text is a sequence of code points.  The paho   *)
(* client is represented by what the script can observe of it: the list of *)
(* accepted publish calls, the session state kept by the background        *)
(* network loop, and the retained value of the status topic at the broker. *)
(***************************************************************************)
EXTENDS Integers, Sequences, FiniteSets

\* ------------------------------------------------------------------ bounds
\* Total number of ser.readline() calls explored.
MaxReads == 3

\* Number of transport faults explored.
MaxFaults == 1

\* ------------------------------------------------------------ byte values
TAB == 9
LF == 10
CR == 13

\* "checksum", the literal of line 116, as code points
CHECKSUM_LOWER == <<99, 104, 101, 99, 107, 115, 117, 109>>

\* "Checksum", the field name the device sends
CHECKSUM_NAME == <<67, 104, 101, 99, 107, 115, 117, 109>>

\* FORBIDDEN_KEY_CHARS = ("#", "*")
FORBIDDEN_KEY_CHARS == {35, 42}

\* payloads of the presence messages
ONLINE == <<111, 110, 108, 105, 110, 101>>
OFFLINE == <<111, 102, 102, 108, 105, 110, 101>>

\* the sub-topic "_ts" of line 70
TS_KEY == <<95, 116, 115>>

\* int(time.time()): the clock value is not part of the model
TS_PAYLOAD == <<>>

AVAIL_TOPIC == [base |-> "AVAIL_TOPIC", sub |-> <<>>]

FieldTopic(k) == [base |-> "TOPIC_PREFIX", sub |-> k]

\* ------------------------------------------------------- sequence helpers
RECURSIVE Sum(_)
Sum(s) == IF s = <<>> THEN 0 ELSE Head(s) + Sum(Tail(s))

RECURSIVE Concat(_)
Concat(ss) == IF ss = <<>> THEN <<>> ELSE Head(ss) \o Concat(Tail(ss))

Range(s) == {s[i] : i \in 1..Len(s)}

Last(s) == s[Len(s)]

Front(s) == SubSeq(s, 1, Len(s) - 1)

\* ------------------------------------------- bytes.decode("utf-8","ignore")
IsCont(b) == b >= 128 /\ b <= 191

\* allowed range of the second byte after lead byte b
SecondOk(b, c) ==
    CASE b = 224 -> c >= 160 /\ c <= 191
      [] b = 237 -> c >= 128 /\ c <= 159
      [] b = 240 -> c >= 144 /\ c <= 191
      [] b = 244 -> c >= 128 /\ c <= 143
      [] OTHER -> IsCont(c)

\* length of the well-formed UTF-8 sequence at the head of s, 0 if none
Utf8Len(s) ==
    LET b == s[1] IN
    CASE b < 128 -> 1
      [] b >= 194 /\ b <= 223 ->
            IF Len(s) >= 2 /\ IsCont(s[2]) THEN 2 ELSE 0
      [] b >= 224 /\ b <= 239 ->
            IF Len(s) >= 3 /\ SecondOk(b, s[2]) /\ IsCont(s[3]) THEN 3 ELSE 0
      [] b >= 240 /\ b <= 244 ->
            IF Len(s) >= 4 /\ SecondOk(b, s[2]) /\ IsCont(s[3]) /\ IsCont(s[4])
            THEN 4 ELSE 0
      [] OTHER -> 0

CodePoint(s, n) ==
    CASE n = 1 -> s[1]
      [] n = 2 -> (s[1] - 192) * 64 + (s[2] - 128)
      [] n = 3 -> (s[1] - 224) * 4096 + (s[2] - 128) * 64 + (s[3] - 128)
      [] OTHER -> (s[1] - 240) * 262144 + (s[2] - 128) * 4096
                  + (s[3] - 128) * 64 + (s[4] - 128)

\* errors="ignore": a byte that starts no well-formed sequence is dropped
RECURSIVE Decode(_)
Decode(s) ==
    IF s = <<>> THEN <<>>
    ELSE LET n == Utf8Len(s) IN
         IF n = 0 THEN Decode(Tail(s))
         ELSE <<CodePoint(s, n)>> \o Decode(SubSeq(s, n + 1, Len(s)))

\* ------------------------------------------------------------- str.strip()
\* the code points for which str.isspace() is true
IsSpace(c) ==
    \/ c \in 9..13
    \/ c \in 28..32
    \/ c \in {133, 160, 5760, 8232, 8233, 8239, 8287, 12288}
    \/ c \in 8192..8202

RECURSIVE LStrip(_)
LStrip(s) == IF s # <<>> /\ IsSpace(Head(s)) THEN LStrip(Tail(s)) ELSE s

RECURSIVE RStrip(_)
RStrip(s) == IF s # <<>> /\ IsSpace(Last(s)) THEN RStrip(Front(s)) ELSE s

Strip(s) == RStrip(LStrip(s))

\* ------------------------------------------------------------- str.lower()
\* the code points that occur in the model: ASCII letters, and the Kelvin
\* sign, the one non-ASCII character that lower() maps to a letter of
\* "checksum"
LowerChar(c) ==
    IF c >= 65 /\ c <= 90 THEN c + 32 ELSE IF c = 8490 THEN 107 ELSE c

Lower(s) == [i \in 1..Len(s) |-> LowerChar(s[i])]

\* ---------------------------------------------------------------- parse_kv
\* index of the first TAB in line, 0 if there is none
FirstTab(line) ==
    IF TAB \in Range(line)
    THEN CHOOSE i \in 1..Len(line) :
            line[i] = TAB /\ \A j \in 1..(i - 1) : line[j] # TAB
    ELSE 0

\* a parser that takes a line without separator as a key with an empty value
parse_kv_NoSepAsKey(line) ==
    LET t == FirstTab(line) IN
    IF t = 0 THEN <<line, <<>>>>
    ELSE <<Strip(SubSeq(line, 1, t - 1)), Strip(SubSeq(line, t + 1, Len(line)))>>

\* None, None is the empty tuple; a record is <<key, value>>
parse_kv(line) ==
    LET t == FirstTab(line) IN
    IF t = 0 THEN <<>>
    ELSE <<Strip(SubSeq(line, 1, t - 1)), Strip(SubSeq(line, t + 1, Len(line)))>>

is_forbidden_key(key) == \E ch \in FORBIDDEN_KEY_CHARS : ch \in Range(key)

\* a store that keeps the value a key already has
RECURSIVE DictSet_KeepFirst(_, _, _)
DictSet_KeepFirst(d, k, v) ==
    IF d = <<>> THEN <<<<k, v>>>>
    ELSE IF Head(d)[1] = k THEN d
    ELSE <<Head(d)>> \o DictSet_KeepFirst(Tail(d), k, v)

\* frame_kv[key] = val on a dict that keeps insertion order
RECURSIVE DictSet(_, _, _)
DictSet(d, k, v) ==
    IF d = <<>> THEN <<<<k, v>>>>
    ELSE IF Head(d)[1] = k THEN <<<<k, v>>>> \o Tail(d)
    ELSE <<Head(d)>> \o DictSet(Tail(d), k, v)

\* {k: v for k, v in frame_kv.items() if not is_forbidden_key(k)}
RECURSIVE Cleaned(_)
Cleaned(d) ==
    IF d = <<>> THEN <<>>
    ELSE IF is_forbidden_key(Head(d)[1]) THEN Cleaned(Tail(d))
    ELSE <<Head(d)>> \o Cleaned(Tail(d))

\* a loop that publishes every frame, whatever its checksum
LrcOk_NoCheck(fb) == TRUE

\* (sum(frame_bytes) & 0xFF) == 0
LrcOk(fb) == Sum(fb) % 256 = 0

\* line = raw.decode("utf-8", errors="ignore").strip()
LineOf(raw) == Strip(Decode(raw))

\* a loop that never accumulates the bytes it reads
Extend_Dropped(fb, raw) == fb

\* a loop that accumulates a read only once it decoded to a non-blank line
Extend_DecodedOnly(fb, raw) == IF LineOf(raw) = <<>> THEN fb ELSE fb \o raw

\* frame_bytes.extend(raw)
Extend(fb, raw) == fb \o raw

\* a comparison that forgot lower()
IsChecksumKey_NoLower(key) == key = CHECKSUM_LOWER

\* key.lower() == "checksum"
IsChecksumKey(key) == Lower(key) = CHECKSUM_LOWER

\* client.publish raises ValueError for a topic with an MQTT wildcard
PublishRaises(topic) == 43 \in Range(topic.sub) \/ 35 \in Range(topic.sub)

\* a loop whose last clause is a bare except
LoopCatches_All(exc) == TRUE

\* a loop without the generic clause
LoopCatches_SerialOnly(exc) == exc = "SerialException"

\* the except clauses of the main loop: SerialException, then Exception.
\* SystemExit derives from BaseException and passes both.
LoopCatches(exc) == exc \in {"SerialException", "Exception"}


\* where an exception raised at program position `at` takes the main thread
Terminated(exc) == IF exc = "SystemExit" THEN "exited" ELSE "crashed"

\* connect loops that let a connect failure leave the function
Handle_ConnectPropagates(exc, at) ==
    IF at \in {"read", "publish"}
    THEN IF LoopCatches(exc)
         THEN IF exc = "SerialException" THEN "fault_sleep" ELSE "read"
         ELSE Terminated(exc)
    ELSE Terminated(exc)

\* the except clause an exception raised at `at` reaches: the loop's clauses
\* in the main loop, the retry clause inside mqtt_connect and open_serial
Handle(exc, at) ==
    IF at \in {"read", "publish"}
    THEN IF LoopCatches(exc)
         THEN IF exc = "SerialException" THEN "fault_sleep" ELSE "read"
         ELSE Terminated(exc)
    ELSE IF at = "mqtt_connect" /\ exc # "SystemExit" THEN "mqtt_sleep"
    ELSE IF at = "open_serial" /\ exc # "SystemExit" THEN "serial_sleep"
    ELSE Terminated(exc)

\* ------------------------------------------------------- the line source
KEY_V == <<86>>
KEY_SER == <<83, 35>>
KEY_PLUS == <<65, 43>>
KEY_STAR == <<88, 42>>

FieldLine(k, v) == k \o <<TAB>> \o v \o <<CR, LF>>

\* V=0, V=8, S#=zz, A+=ZZ, X*=ZZ
FieldLines ==
    { FieldLine(KEY_V, <<48>>), FieldLine(KEY_V, <<56>>),
      FieldLine(KEY_SER, <<122, 122>>), FieldLine(KEY_PLUS, <<90, 90>>),
      FieldLine(KEY_STAR, <<90, 90>>) }

\* a line of bytes that are not UTF-8, and a line without separator
NoiseLines == { <<255, CR, LF>>, <<106, CR, LF>> }

ChecksumLine(x) == CHECKSUM_NAME \o <<TAB, x>> \o <<CR, LF>>

\* the checksum byte that brings the frame in fb to 0 mod 256
ValidCk(fb) == (256 - ((Sum(fb) + Sum(ChecksumLine(0))) % 256)) % 256

\* what ser.readline() can return with bytes in it: a line ends at its LF
IsReadline(raw) == \A i \in 1..(Len(raw) - 1) : raw[i] # LF

Lines(fb) ==
    { l \in FieldLines \cup NoiseLines
            \cup { ChecksumLine(ValidCk(fb)),
                   ChecksumLine((ValidCk(fb) + 1) % 256) } : IsReadline(l) }

\* ------------------------------------------------------------------ state
VARIABLES
    pc,             \* position of the main thread
    ctx,            \* position at which the signal interrupted the thread
    reopening,      \* open_serial() was called from the SerialException handler
    frame_bytes,    \* bytearray of the current frame
    frame_kv,       \* dict of the current frame, in insertion order
    pending,        \* items of publish_frame's loop still to be published
    published,      \* publish calls the client accepted, in order
    connected,      \* the bus session is up
    loop_running,   \* the client's network loop thread is running
    status,         \* retained payload of the status topic at the broker
    PUBLISH_RETAIN, \* the RETAIN setting read at start
    nreads,         \* number of readline calls that returned
    nfaults,        \* number of readline calls that raised SerialException
    idle,           \* consecutive readline timeouts
    signalled,      \* a termination signal was received
    h_reads,        \* history: non-empty reads since the buffers were last cleared
    h_frame,        \* history: reads in the buffer at the latest non-empty read
    h_mark,         \* history: Len(published) before the latest non-empty read
    h_afterFault,   \* history: non-empty reads since the latest transport fault
    h_lost          \* history: reads dropped by the latest transport fault

vars == <<pc, ctx, reopening, frame_bytes, frame_kv, pending, published,
          connected, loop_running, status, PUBLISH_RETAIN, nreads, nfaults,
          idle, signalled, h_reads, h_frame, h_mark, h_afterFault, h_lost>>

busVars == <<connected, loop_running, status>>
bufVars == <<frame_bytes, frame_kv>>
histVars == <<h_reads, h_frame, h_mark, h_afterFault, h_lost, nfaults>>

Msg(topic, payload, retain) ==
    [topic |-> topic, payload |-> payload, retain |-> retain]

\* a publish_frame that always asks for retained messages
FrameMsg_Retained(sub, payload) == Msg(FieldTopic(sub), payload, TRUE)

\* the arguments of the two publish calls of publish_frame:
\* f"{TOPIC_PREFIX}/{sub}", payload, retain=PUBLISH_RETAIN
FrameMsg(sub, payload) == Msg(FieldTopic(sub), payload, PUBLISH_RETAIN)

\* the broker keeps a retained status message only when it receives it
Delivered(m) == IF connected /\ m.topic = AVAIL_TOPIC THEN m.payload ELSE status

Init ==
    /\ pc = "mqtt_connect"
    /\ ctx = "none"
    /\ reopening = FALSE
    /\ frame_bytes = <<>>
    /\ frame_kv = <<>>
    /\ pending = <<>>
    /\ published = <<>>
    /\ connected = FALSE
    /\ loop_running = FALSE
    /\ status = <<>>
    /\ PUBLISH_RETAIN \in BOOLEAN
    /\ nreads = 0
    /\ nfaults = 0
    /\ idle = 0
    /\ signalled = FALSE
    /\ h_reads = <<>>
    /\ h_frame = <<>>
    /\ h_mark = 0
    /\ h_afterFault = <<>>
    /\ h_lost = <<>>

\* ------------------------------------------------------------ mqtt_connect
MqttConnectOk ==
    /\ pc = "mqtt_connect"
    /\ connected' = TRUE
    /\ loop_running' = TRUE
    /\ published' = Append(published, Msg(AVAIL_TOPIC, ONLINE, TRUE))
    /\ status' = ONLINE
    /\ pc' = "open_serial"
    /\ UNCHANGED <<ctx, reopening, bufVars, pending, PUBLISH_RETAIN, nreads,
                   idle, signalled, histVars>>

MqttConnectFail ==
    /\ pc = "mqtt_connect"
    /\ pc' = Handle("Exception", "mqtt_connect")
    /\ UNCHANGED <<ctx, reopening, bufVars, pending, published, busVars,
                   PUBLISH_RETAIN, nreads, idle, signalled, histVars>>

MqttSleep ==
    /\ pc = "mqtt_sleep"
    /\ pc' = "mqtt_connect"
    /\ UNCHANGED <<ctx, reopening, bufVars, pending, published, busVars,
                   PUBLISH_RETAIN, nreads, idle, signalled, histVars>>

\* ------------------------------------------------------------- open_serial
SerialOpenOk ==
    /\ pc = "open_serial"
    /\ pc' = "read"
    /\ reopening' = FALSE
    /\ IF reopening
       THEN /\ frame_bytes' = <<>>
            /\ frame_kv' = <<>>
            /\ h_reads' = <<>>
       ELSE UNCHANGED <<bufVars, h_reads>>
    /\ UNCHANGED <<ctx, pending, published, busVars, PUBLISH_RETAIN, nreads,
                   nfaults, idle, signalled, h_frame, h_mark, h_afterFault,
                   h_lost>>

SerialOpenFail ==
    /\ pc = "open_serial"
    /\ pc' = Handle("SerialException", "open_serial")
    /\ UNCHANGED <<ctx, reopening, bufVars, pending, published, busVars,
                   PUBLISH_RETAIN, nreads, idle, signalled, histVars>>

SerialSleep ==
    /\ pc = "serial_sleep"
    /\ pc' = "open_serial"
    /\ UNCHANGED <<ctx, reopening, bufVars, pending, published, busVars,
                   PUBLISH_RETAIN, nreads, idle, signalled, histVars>>

\* --------------------------------------------------------- the main loop
\* ser.readline() timed out: `if not raw: continue`
ReadTimeout ==
    /\ pc = "read"
    /\ nreads < MaxReads
    /\ nreads' = nreads + 1
    /\ idle' = idle + 1
    /\ UNCHANGED <<pc, ctx, reopening, bufVars, pending, published, busVars,
                   PUBLISH_RETAIN, signalled, histVars>>

\* one iteration of the loop on a non-empty read, lines 95-139, up to the
\* call of publish_frame
ReadLine(raw) ==
    /\ pc = "read"
    /\ nreads < MaxReads
    /\ nreads' = nreads + 1
    /\ idle' = 0
    /\ h_frame' = Append(h_reads, raw)
    /\ h_mark' = Len(published)
    /\ h_afterFault' = Append(h_afterFault, raw)
    /\ LET fb == Extend(frame_bytes, raw)
           line == LineOf(raw)
           kv == parse_kv(line)
       IN IF line = <<>> \/ kv = <<>>
          THEN \* blank or no separator: continue
               /\ frame_bytes' = fb
               /\ h_reads' = Append(h_reads, raw)
               /\ UNCHANGED <<pc, frame_kv, pending>>
          ELSE IF IsChecksumKey(kv[1])
          THEN IF ~LrcOk(fb)
               THEN \* invalid frame: drop it
                    /\ frame_bytes' = <<>>
                    /\ frame_kv' = <<>>
                    /\ h_reads' = <<>>
                    /\ UNCHANGED <<pc, pending>>
               ELSE \* valid frame: filter and enter publish_frame
                    /\ frame_bytes' = fb
                    /\ h_reads' = Append(h_reads, raw)
                    /\ pending' = Cleaned(frame_kv)
                    /\ pc' = "publish"
                    /\ UNCHANGED frame_kv
          ELSE \* normal key: store
               /\ frame_bytes' = fb
               /\ frame_kv' = DictSet(frame_kv, kv[1], kv[2])
               /\ h_reads' = Append(h_reads, raw)
               /\ UNCHANGED <<pc, pending>>
    /\ UNCHANGED <<ctx, reopening, published, busVars, PUBLISH_RETAIN,
                   signalled, h_lost, nfaults>>

\* ser.readline() raises SerialException
ReadFault ==
    /\ pc = "read"
    /\ nfaults < MaxFaults
    /\ nfaults' = nfaults + 1
    /\ pc' = Handle("SerialException", "read")
    /\ h_lost' = h_reads
    /\ h_afterFault' = <<>>
    /\ h_frame' = <<>>
    /\ h_mark' = Len(published)
    /\ UNCHANGED <<ctx, reopening, bufVars, pending, published, busVars,
                   PUBLISH_RETAIN, nreads, idle, signalled, h_reads>>

\* time.sleep(3) of the SerialException handler, then open_serial()
FaultSleep ==
    /\ pc = "fault_sleep"
    /\ pc' = "open_serial"
    /\ reopening' = TRUE
    /\ UNCHANGED <<ctx, bufVars, pending, published, busVars, PUBLISH_RETAIN,
                   nreads, idle, signalled, histVars>>

\* one round of the for loop of publish_frame
PublishField ==
    /\ pc = "publish"
    /\ pending # <<>>
    /\ LET k == Head(pending)[1]
           v == Head(pending)[2]
           topic == FieldTopic(k)
       IN IF PublishRaises(topic)
          THEN \* ValueError leaves publish_frame and the try block
               /\ pc' = Handle("Exception", "publish")
               /\ pending' = <<>>
               /\ UNCHANGED published
          ELSE /\ published' = Append(published, FrameMsg(k, v))
               /\ pending' = Tail(pending)
               /\ UNCHANGED pc
    /\ UNCHANGED <<ctx, reopening, bufVars, busVars, PUBLISH_RETAIN, nreads,
                   idle, signalled, histVars>>

\* the _ts message, return from publish_frame, reset of the buffers
PublishTs ==
    /\ pc = "publish"
    /\ pending = <<>>
    /\ published' = Append(published, FrameMsg(TS_KEY, TS_PAYLOAD))
    /\ frame_bytes' = <<>>
    /\ frame_kv' = <<>>
    /\ h_reads' = <<>>
    /\ pc' = "read"
    /\ UNCHANGED <<ctx, reopening, pending, busVars, PUBLISH_RETAIN, nreads,
                   nfaults, idle, signalled, h_frame, h_mark, h_afterFault,
                   h_lost>>

\* ----------------------------------------------------------- graceful_exit
Running == pc \notin {"exited", "crashed"}

\* SIGINT or SIGTERM arrives and the handler runs on the main thread:
\* client.publish(AVAIL_TOPIC, "offline", retain=True); client.loop_stop();
\* client.disconnect(); then sys.exit(0) raises SystemExit where the signal
\* interrupted the thread
graceful_exit ==
    /\ Running
    /\ signalled' = TRUE
    /\ ctx' = pc
    /\ LET m == Msg(AVAIL_TOPIC, OFFLINE, TRUE)
       IN /\ published' = Append(published, m)
          /\ status' = Delivered(m)
    /\ loop_running' = FALSE
    /\ connected' = FALSE
    /\ pc' = Handle("SystemExit", pc)
    /\ pending' = <<>>
    /\ UNCHANGED <<reopening, bufVars, PUBLISH_RETAIN, nreads, idle, histVars>>

\* ------------------------------------------- the broker and the loop thread
\* the broker drops the session and delivers the last will of line 26
BrokerDrop ==
    /\ connected
    /\ Running
    /\ connected' = FALSE
    /\ status' = OFFLINE
    /\ UNCHANGED <<pc, ctx, reopening, bufVars, pending, published,
                   loop_running, PUBLISH_RETAIN, nreads, idle, signalled,
                   histVars>>

\* the network loop started by loop_start() reconnects by itself; the
\* script registers no on_connect callback
BusReconnect ==
    /\ ~connected
    /\ loop_running
    /\ Running
    /\ connected' = TRUE
    /\ UNCHANGED <<pc, ctx, reopening, bufVars, pending, published,
                   loop_running, status, PUBLISH_RETAIN, nreads, idle,
                   signalled, histVars>>

Next ==
    \/ MqttConnectOk
    \/ MqttConnectFail
    \/ MqttSleep
    \/ SerialOpenOk
    \/ SerialOpenFail
    \/ SerialSleep
    \/ ReadTimeout
    \/ \E raw \in Lines(frame_bytes) : ReadLine(raw)
    \/ ReadFault
    \/ FaultSleep
    \/ PublishField
    \/ PublishTs
    \/ graceful_exit
    \/ BrokerDrop
    \/ BusReconnect

Spec == Init /\ [][Next]_vars

\* =================================================================
\* Properties
\* =================================================================

\* the messages published since the latest non-empty read began
Sent == SubSeq(published, h_mark + 1, Len(published))

\* the code took raw for the end of a frame (lines 104-116)
SentinelDetected(raw) ==
    LET line == LineOf(raw)
        kv == parse_kv(line)
    IN line # <<>> /\ kv # <<>> /\ IsChecksumKey(kv[1])

\* the field mapping a list of reads builds up
RECURSIVE DictOf(_)
DictOf(reads) ==
    IF reads = <<>> THEN <<>>
    ELSE LET kv == parse_kv(LineOf(Last(reads)))
         IN IF kv = <<>> \/ IsChecksumKey(kv[1]) THEN DictOf(Front(reads))
            ELSE DictSet(DictOf(Front(reads)), kv[1], kv[2])

\* number of records among a list of reads
RECURSIVE RecordCount(_)
RecordCount(reads) ==
    IF reads = <<>> THEN 0
    ELSE LET kv == parse_kv(LineOf(Last(reads)))
         IN RecordCount(Front(reads))
            + (IF kv = <<>> \/ IsChecksumKey(kv[1]) THEN 0 ELSE 1)

\* the wildcard characters of the message bus: '#' and '+'
WildcardChars == {35, 43}

HasWildcard(k) == Range(k) \cap WildcardChars # {}

\* a field line as the device sends it: key TAB value CR LF, key and value
\* of printable ASCII
Printable(s) == s # <<>> /\ \A i \in 1..Len(s) : s[i] \in 33..126

WfField(raw) ==
    /\ Len(raw) >= 5
    /\ raw[Len(raw) - 1] = CR
    /\ raw[Len(raw)] = LF
    /\ LET t == FirstTab(raw)
       IN /\ t > 1
          /\ Printable(SubSeq(raw, 1, t - 1))
          /\ Printable(SubSeq(raw, t + 1, Len(raw) - 2))
          /\ Lower(SubSeq(raw, 1, t - 1)) # CHECKSUM_LOWER

WfKey(raw) == SubSeq(raw, 1, FirstTab(raw) - 1)

WfValue(raw) == SubSeq(raw, FirstTab(raw) + 1, Len(raw) - 2)

\* the Checksum line as the device sends it, for any checksum byte
WfSentinel(raw) == \E x \in 0..255 : raw = ChecksumLine(x)

\* one well-formed frame: field lines with distinct keys, then the Checksum
\* line, the bytes of all of them summing to 0 mod 256
WfValidFrame(reads) ==
    /\ Len(reads) >= 2
    /\ WfSentinel(Last(reads))
    /\ \A i \in 1..(Len(reads) - 1) : WfField(reads[i])
    /\ \A i, j \in 1..(Len(reads) - 1) :
          i # j => WfKey(reads[i]) # WfKey(reads[j])
    /\ Sum(Concat(reads)) % 256 = 0

\* the messages such a frame is to produce
ExpectedMsgs(reads) ==
    { Msg(FieldTopic(WfKey(reads[i])), WfValue(reads[i]), PUBLISH_RETAIN) :
        i \in { j \in 1..(Len(reads) - 1) : ~HasWildcard(WfKey(reads[j])) } }
    \cup { Msg(FieldTopic(TS_KEY), TS_PAYLOAD, PUBLISH_RETAIN) }

BuffersEmpty == frame_kv = <<>> /\ frame_bytes = <<>>

\* C1: when the reads since the buffers were last empty are exactly one
\* well-formed frame with byte sum 0 mod 256, whatever its checksum byte, then
\* at the end of the iteration that read the Checksum line one message per
\* field without wildcard and one _ts message were published, and both
\* buffers are empty.
C1_ValidFramePublished ==
    (pc = "read" /\ WfValidFrame(h_frame))
    => /\ Range(Sent) = ExpectedMsgs(h_frame)
       /\ Len(Sent) = Cardinality(ExpectedMsgs(h_frame))
       /\ BuffersEmpty

\* C2: when the code detects the sentinel and the bytes accumulated since the
\* last reset, sentinel line included, do not sum to 0 mod 256, the iteration
\* ends with nothing published and both buffers empty.
C2_BadChecksumDropped ==
    (/\ pc = "read"
     /\ h_frame # <<>>
     /\ SentinelDetected(Last(h_frame))
     /\ Sum(Concat(h_frame)) % 256 # 0)
    => Sent = <<>> /\ BuffersEmpty

\* a frame with stored fields was dropped for its checksum
C2_Witness ==
    /\ pc = "read"
    /\ Len(h_frame) >= 2
    /\ WfField(h_frame[1])
    /\ SentinelDetected(Last(h_frame))
    /\ Sum(Concat(h_frame)) % 256 # 0
    /\ BuffersEmpty

\* C3: no message is ever published for a key with a wildcard character
\* ('#' or '+'), and when a frame with valid checksum has been handled, each
\* of its fields whose key has no wildcard character has been published.
C3_WildcardKeysFiltered ==
    /\ \A i \in 1..Len(published) :
          published[i].topic.base = "TOPIC_PREFIX"
          => ~HasWildcard(published[i].topic.sub)
    /\ (/\ pc = "read"
        /\ h_frame # <<>>
        /\ SentinelDetected(Last(h_frame))
        /\ Sum(Concat(h_frame)) % 256 = 0)
       => LET d == DictOf(h_frame)
          IN \A i \in 1..Len(d) :
                ~HasWildcard(d[i][1])
                => Msg(FieldTopic(d[i][1]), d[i][2], PUBLISH_RETAIN)
                      \in Range(Sent)

\* C4: a transport fault that hits a frame in progress leaves both buffers
\* empty once the port is reopened, and when the reads after the fault are
\* exactly one well-formed frame with byte sum 0, that frame is published with
\* its own fields and nothing else.
C4_FaultThenFramePublished ==
    /\ (pc = "read" /\ h_lost # <<>> /\ h_afterFault = <<>>) => BuffersEmpty
    /\ (pc = "read" /\ h_lost # <<>> /\ WfValidFrame(h_afterFault))
       => /\ Range(Sent) = ExpectedMsgs(h_afterFault)
          /\ Len(Sent) = Cardinality(ExpectedMsgs(h_afterFault))
          /\ BuffersEmpty

\* C5: once the iteration that detected a sentinel is over, both buffers are
\* empty, whatever became of the frame.
C5_SentinelAlwaysResets ==
    (pc = "read" /\ h_frame # <<>> /\ SentinelDetected(Last(h_frame)))
    => BuffersEmpty

\* the configured maximum of records per frame (default 128), set below the
\* number of reads explored so that a longer run of records occurs
MAX_RECORDS == MaxReads - 2

\* C6: the records accumulated in the pending frame never exceed the
\* configured maximum by more than one.
C6_RunawayGuard == RecordCount(h_reads) <= MAX_RECORDS + 1

C8_OnlineWhileConnected == (connected /\ Running) => status = ONLINE

\* C9: once a termination signal has been received, in whatever position of
\* the program, the process has exited, the retained "offline" message on the
\* status topic is the last message published, and the network loop is
\* stopped; no handler of the loop took the exit for an error to log.
C9_GracefulExit ==
    signalled
    => /\ pc = "exited"
       /\ published # <<>>
       /\ Last(published) = Msg(AVAIL_TOPIC, OFFLINE, TRUE)
       /\ ~loop_running

\* the signal arrived in the middle of publish_frame, after a field message
C9_Witness ==
    /\ pc = "exited"
    /\ ctx = "publish"
    /\ Len(published) >= 3
    /\ published[Len(published) - 1].topic.base = "TOPIC_PREFIX"

\* C10: the process does not end on an exception of a loop iteration; when it
\* has ended, a termination signal was received.
C10_OnlySignalEnds ==
    /\ pc # "crashed"
    /\ pc = "exited" => signalled

\* the loop went on after publish raised, and after a transport fault
C10_Witness ==
    /\ pc = "read"
    /\ h_lost # <<>>
    /\ h_frame # <<>>
    /\ SentinelDetected(Last(h_frame))
    /\ frame_bytes # <<>>

\* the fields of a mapping that pass the key filter, in the mapping's order
SurvivingFields(d) == SelectSeq(d, LAMBDA p : ~is_forbidden_key(p[1]))

\* publish_frame has returned for the frame read last: its checksum was
\* accepted and the buffers were reset after the call
FramePublished ==
    /\ pc = "read"
    /\ h_frame # <<>>
    /\ SentinelDetected(Last(h_frame))
    /\ Sum(Concat(h_frame)) % 256 = 0
    /\ BuffersEmpty

IDLE_TIMEOUT_READS == MaxReads - 2

\* C12: when more consecutive reads have timed out than the idle timeout
\* allows, no pending frame is left: the field mapping holds no record.
C12_IdleGuard ==
    (pc = "read" /\ idle > IDLE_TIMEOUT_READS) => frame_kv = <<>>

\* C13: the iteration that reads a Checksum line, whatever its checksum
\* byte, ends the frame: it either enters publish_frame or leaves both
\* buffers empty.
C13_SentinelAnyByte ==
    [][(/\ pc = "read"
        /\ nreads' = nreads + 1
        /\ idle' = 0
        /\ WfSentinel(Last(h_frame')))
       => (pc' = "publish" \/ (frame_kv' = <<>> /\ frame_bytes' = <<>>))]_vars

RecordOf(raw) ==
    LET kv == parse_kv(LineOf(raw))
    IN IF kv = <<>> \/ Lower(kv[1]) = CHECKSUM_LOWER THEN <<>> ELSE kv

\* the records the reads yield, one entry per read
RECURSIVE Records(_)
Records(reads) ==
    IF reads = <<>> THEN <<>>
    ELSE <<RecordOf(Head(reads))>> \o Records(Tail(reads))

\* the indices of the entries of recs that are records with key k
RecordsOf(recs, k) ==
    { i \in 1..Len(recs) : recs[i] # <<>> /\ recs[i][1] = k }

\* the value of the last record with key k in recs
LastValue(recs, k) ==
    LET I == RecordsOf(recs, k)
        m == CHOOSE i \in I : \A j \in I : j <= i
    IN recs[m][2]

\* C15: frame_kv holds each key once; a published frame has exactly one
\* message per key it publishes, and that message carries the value of the
\* last record of that key read since the previous reset.
C15_LastWriteWins ==
    /\ \A i, j \in 1..Len(frame_kv) :
          frame_kv[i][1] = frame_kv[j][1] => i = j
    /\ FramePublished
       => LET recs == Records(h_frame)
          IN \A i \in 1..(Len(Sent) - 1) :
                LET k == Sent[i].topic.sub
                IN /\ \A j \in 1..(Len(Sent) - 1) : Sent[j].topic.sub = k => j = i
                   /\ RecordsOf(recs, k) # {}
                   /\ Sent[i].payload = LastValue(recs, k)

\* a frame with two records of one key was published with the later value
C15_Witness ==
    /\ FramePublished
    /\ Len(h_frame) = 3
    /\ RecordOf(h_frame[1]) # <<>>
    /\ RecordOf(h_frame[2]) # <<>>
    /\ RecordOf(h_frame[1])[1] = RecordOf(h_frame[2])[1]
    /\ RecordOf(h_frame[1])[2] # RecordOf(h_frame[2])[2]
    /\ Len(Sent) = 2
    /\ Sent[1].payload = RecordOf(h_frame[2])[2]

\* the bytes read hold no field separator, or decode and strip to nothing
NotARecord(raw) == TAB \notin Range(raw) \/ Strip(Decode(raw)) = <<>>

\* C16: the iteration that reads a line without field separator, or one that
\* decodes to the empty string, leaves the field mapping and the published
\* messages as they were, raises nothing and stays in the frame; it only
\* appends the raw bytes read to frame_bytes.
C16_MalformedSkipped ==
    [][(/\ pc = "read"
        /\ nreads' = nreads + 1
        /\ idle' = 0
        /\ NotARecord(Last(h_frame')))
       => (/\ frame_kv' = frame_kv
           /\ published' = published
           /\ pending' = pending
           /\ pc' = "read"
           /\ frame_bytes' = frame_bytes \o Last(h_frame'))]_vars

\* a line without separator was read inside an open frame
C16_Witness ==
    /\ pc = "read"
    /\ Len(h_reads) = 2
    /\ WfField(h_reads[1])
    /\ NotARecord(h_reads[2])
    /\ Len(frame_kv) = 1
    /\ frame_bytes = Concat(h_reads)

\* where the program is, or was when the signal ended it
Where == IF pc = "exited" THEN ctx ELSE pc

\* mqtt_connect has not returned yet
BusNeverConnected == Where \in {"mqtt_connect", "mqtt_sleep"}

\* the first open_serial has not returned yet
SerialNeverOpened ==
    \/ BusNeverConnected
    \/ (Where \in {"open_serial", "serial_sleep"} /\ ~reopening)

\* C17: once mqtt_connect has returned the first message is the retained
\* 'online'; until it has returned there is no 'online' and no open line
\* source; until the first open_serial has returned nothing was read and no
\* frame message was published. A failed connect only leads to its sleep and
\* the sleep only back to the connect: the two functions are left by success
\* or by the signal, never by a failure.
C17_TransportOrder ==
    /\ [](~BusNeverConnected
          => (published # <<>> /\ published[1] = Msg(AVAIL_TOPIC, ONLINE, TRUE)))
    /\ [](BusNeverConnected
          => \A i \in 1..Len(published) : published[i].payload # ONLINE)
    /\ [](SerialNeverOpened
          => /\ nreads = 0
             /\ nfaults = 0
             /\ BuffersEmpty
             /\ \A i \in 1..Len(published) :
                   published[i].topic.base # "TOPIC_PREFIX")
    /\ [](pc # "crashed")
    /\ [][/\ pc = "mqtt_connect"
             => pc' \in {"mqtt_connect", "mqtt_sleep", "open_serial", "exited"}
          /\ pc = "mqtt_sleep" => pc' \in {"mqtt_sleep", "mqtt_connect", "exited"}
          /\ pc = "open_serial"
             => pc' \in {"open_serial", "serial_sleep", "read", "exited"}
          /\ pc = "serial_sleep"
             => pc' \in {"serial_sleep", "open_serial", "exited"}
          /\ (pc' = "exited" /\ pc # "exited") => signalled']_vars

\* the bus is connected and 'online' announced, the first open of the line
\* source has failed and waits for its retry, and nothing was read
C17_Witness ==
    /\ pc = "serial_sleep"
    /\ ~reopening
    /\ connected
    /\ published = <<Msg(AVAIL_TOPIC, ONLINE, TRUE)>>
    /\ nreads = 0

\* C18: whenever frame_bytes is empty, frame_kv is empty: the buffers are
\* cleared together and a key is stored only after the bytes of its line were
\* appended.
C18_EmptyTogether == (frame_bytes = <<>>) => (frame_kv = <<>>)

\* a frame that began with a stored field has ended and left both buffers
\* empty
C18_Witness ==
    /\ pc = "read"
    /\ Len(h_frame) >= 2
    /\ WfField(h_frame[1])
    /\ frame_bytes = <<>>
    /\ frame_kv = <<>>
    /\ h_reads = <<>>

====
